---- MODULE Spec2Model ----
(***************************************************************************)
(* Model of custom_components/samsungtv_smart: the Frame Art switch        *)
(* (switch.py) and the integration hooks (__init__.py).                    *)
(*                                                                         *)
(* The host (Home Assistant) owns the entity registry, the state store and *)
(* the service bus; the TV is reached through SamsungTVWS.  Both are       *)
(* environment: a service call or a TV call either returns or raises, and  *)
(* an attribute read returns whatever the host reports at that instant.    *)
(* Durations are counted in units of 0.05 s.                               *)
(***************************************************************************)
EXTENDS Integers, Sequences, FiniteSets, TLC

\* ------------------------------------------------------------------ bounds

\* Largest retry count an options dict may carry.
MaxRetries == 3
\* Largest number of rows of an entity-registry snapshot.
MaxRegistry == 2

\* ------------------------------------------------------- program constants

OPT_ENABLED == "frame_art_enabled"
OPT_SOURCE_OFF == "frame_art_source_off"
OPT_APP_ID == "frame_art_app_id"
OPT_SELECT_DELAY == "frame_art_select_delay"
OPT_RETRIES == "frame_art_retries"
OPT_RETRY_SLEEP == "frame_art_retry_sleep"

DEF_ENABLED == "True"
DEF_APP_ID == "TV/HDMI"
\* 0.6 s
DEF_SELECT_DELAY == 12
DEF_RETRIES == 6
\* 0.35 s
DEF_RETRY_SLEEP == 7
\* 0.05 s, the floor of max(0.05, ...)
MIN_RETRY_SLEEP == 1

\* Python's None.
NoneVal == "<None>"

\* ------------------------------------------------------------ Python helpers

Max(a, b) == IF a >= b THEN a ELSE b

\* Truthiness of an option value (bool(v)): None, "", "False" (the bool
\* False) and "0" (the int 0) are falsy.
Truthy(v) == v \notin {NoneVal, "", "False", "0"}

\* dict.get(key, default): an options dict maps each key to <<>> (the key is
\* absent) or to <<value>>.
OptGet(options, key, default) ==
    IF options[key] = <<>> THEN default ELSE options[key][1]

\* ----------------------------------------------------------------- variables

VARIABLES
    registry,   \* er.async_get(hass).entities.values(), in iteration order
    states,     \* entity ids present in hass.states
    entry,      \* the ConfigEntry handed to async_setup_entry
    created,    \* async_add_entities was called with a FrameArtSwitch
    self,       \* the FrameArtSwitch's fields
    pc,         \* position of the host's task on the switch
    i,          \* _wait_attr's loop counter: polls done in the current wait
    log,        \* sleeps, service calls and polls of the current operation
    last,       \* the operation that last started ("none" before the first)
    artOk,      \* whether that operation's call to the TV returned
    before,     \* is_on when that operation started
    raised,     \* an exception left an operation of the switch
    hass_data,  \* hass.data[DOMAIN]: entry id -> what is stored for the entry
    hook        \* the integration hook that last ran, and what it returned

vars == <<registry, states, entry, created, self, pc, i, log, last, artOk,
          before, raised, hass_data, hook>>

\* ------------------------------------------------------- the host's snapshot

ThisEntry == "entry1"
DOMAIN_NAME == "samsungtv_smart"

\* Entity ids the host may know, and ent.domain (the part before the dot).
EntityIds == {"media_player.tv_1", "media_player.salon", "remote.tv_1"}

DomainOf(entity_id) ==
    IF entity_id = "remote.tv_1" THEN "remote" ELSE "media_player"

\* Who registered a row: (platform, config_entry_id).  A config entry belongs
\* to one integration, so "entry3" (a cast entry) never owns a
\* samsungtv_smart row.
Owners == { <<DOMAIN_NAME, ThisEntry>>, <<DOMAIN_NAME, "entry2">>,
            <<"cast", "entry3">> }

RegistryRows ==
    { [entity_id |-> e, domain |-> DomainOf(e), platform |-> o[1],
       config_entry_id |-> o[2], disabled |-> d] :
        e \in EntityIds, o \in Owners, d \in BOOLEAN }

\* Registry snapshots: rows in iteration order, one row per entity id.
RegistriesOfLen(n) ==
    { r \in [1..n -> RegistryRows] :
        \A a, b \in 1..n : a # b => r[a].entity_id # r[b].entity_id }

AllRegistries == UNION { RegistriesOfLen(n) : n \in 0..MaxRegistry }

\* A disabled entity has no state; an enabled row may be stale (no state).
StateSetsOf(reg) ==
    SUBSET { reg[k].entity_id : k \in { j \in 1..Len(reg) : ~reg[j].disabled } }

\* The registry of an installation with at most one media player, owned by
\* this entry.
SmallRegistries ==
    { r \in AllRegistries :
        \A k \in 1..Len(r) :
            /\ r[k].entity_id = "media_player.tv_1"
            /\ r[k].config_entry_id = ThisEntry
            /\ ~r[k].disabled }

\* ------------------------------------------------------------ config entries

EnabledOpts == { <<>>, <<"True">>, <<"False">>, <<"0">> }
SourceOpts == { <<>>, <<"HDMI1">> }
AppOpts == { <<>>, <<"">>, <<"TV/HDMI">> }
DelayOpts == { <<>>, <<-1>> }
RetriesOpts == { <<>> } \cup { <<n>> : n \in -1..MaxRetries }
RetrySleepOpts == { <<>>, <<0>>, <<2>> }

OptionsDict(en, so, ap, de, re, rs) ==
    [frame_art_enabled |-> en, frame_art_source_off |-> so,
     frame_art_app_id |-> ap, frame_art_select_delay |-> de,
     frame_art_retries |-> re, frame_art_retry_sleep |-> rs]

AllOptions ==
    { OptionsDict(en, so, ap, de, re, rs) :
        en \in EnabledOpts, so \in SourceOpts, ap \in AppOpts,
        de \in DelayOpts, re \in RetriesOpts, rs \in RetrySleepOpts }

\* Options of the entries used to exercise the resolver: the feature on or
\* switched off, a source label, the default app and delay, one poll.
ResolverOptions ==
    { OptionsDict(en, <<"HDMI1">>, <<>>, <<>>, <<0>>, <<>>) :
        en \in { <<>>, <<"False">> } }

\* entry.data: the keys async_setup_entry looks at; None where absent.
DataDict(host, ip_address, ip, device_ip) ==
    [host |-> host, ip_address |-> ip_address, ip |-> ip,
     device_ip |-> device_ip]

TvAddress == "192.168.1.20"

DataDicts ==
    { DataDict(TvAddress, NoneVal, NoneVal, NoneVal),
      DataDict(NoneVal, NoneVal, NoneVal, NoneVal) }

ResolverDataDicts ==
    DataDicts \cup { DataDict("", NoneVal, NoneVal, TvAddress) }

Titles == { "TV 1" }

Entries(optionSet, dataSet) ==
    { [entry_id |-> ThisEntry, title |-> t, options |-> o, data |-> d] :
        t \in Titles, o \in optionSet, d \in dataSet }


\* Outcome of an awaited call into the host's service bus or the TV client.
CallOutcomes == { "ok", "error" }

\* ------------------------------------------------- __init__.py: the hooks

\* The config entries of the integration the host may set up and unload.
IntegrationEntryIds == { ThisEntry, "entry2", "entry4" }

\* hass.data.get(DOMAIN, {}) before any setup.  (A missing DOMAIN key and an
\* empty dict read the same through setdefault and get.)
NoData == [k \in {} |-> "empty"]

NoHook == [op |-> "none", entry_id |-> NoneVal, platforms |-> "none",
           result |-> NoneVal, n |-> 0]

\* hass.data.setdefault(DOMAIN, {}); hass.data[DOMAIN][entry.entry_id] = {}
SetupEntryData(data, entry_id) ==
    [k \in DOMAIN data \cup {entry_id} |->
        IF k = entry_id THEN "empty" ELSE data[k]]

\* async_unload_entry popping the key whatever unload_ok says.
UnloadEntryData_Always(data, entry_id, unload_ok) ==
    [k \in DOMAIN data \ {entry_id} |-> data[k]]

\* if unload_ok: hass.data.get(DOMAIN, {}).pop(entry.entry_id, None)
UnloadEntryData(data, entry_id, unload_ok) ==
    IF unload_ok
    THEN [k \in DOMAIN data \ {entry_id} |-> data[k]]
    ELSE data

\* The hook that ran: platforms is how the awaited platform call ended,
\* result what the hook returned ("raise": the platform call's error left it).
HookRecord(op, entry_id, platforms, result) ==
    [op |-> op, entry_id |-> entry_id, platforms |-> platforms,
     result |-> result, n |-> 1 - hook.n]

\* async_setup_entry of the integration: the store is written before
\* async_forward_entry_setups is awaited.
IntegrationSetupEntry ==
    /\ \E e \in IntegrationEntryIds, forwarded \in CallOutcomes :
        /\ hass_data' = SetupEntryData(hass_data, e)
        /\ hook' = HookRecord("setup", e, forwarded,
                              IF forwarded = "ok" THEN "True" ELSE "raise")
    /\ UNCHANGED <<registry, states, entry, created, self, pc, i, log, last,
                   artOk, before, raised>>

\* async_unload_entry of the integration: async_unload_platforms returns
\* True or False, or raises.
IntegrationUnloadEntry ==
    /\ \E e \in IntegrationEntryIds, unloaded \in {"True", "False", "error"} :
        /\ hass_data' = IF unloaded = "error" THEN hass_data
                        ELSE UnloadEntryData(hass_data, e, unloaded = "True")
        /\ hook' = HookRecord("unload", e, unloaded,
                              IF unloaded = "error" THEN "raise" ELSE unloaded)
    /\ UNCHANGED <<registry, states, entry, created, self, pc, i, log, last,
                   artOk, before, raised>>

\* A platform of a set-up entry stores something in the entry's dict.
PlatformStoresData ==
    /\ \E e \in DOMAIN hass_data :
        /\ hass_data[e] = "empty"
        /\ hass_data' = [hass_data EXCEPT ![e] = "populated"]
    /\ UNCHANGED <<registry, states, entry, created, self, pc, i, log, last,
                   artOk, before, raised, hook>>

\* ------------------------------------------------------- switch.py: the setup

\* Python's "a or b".
Or(a, b) == IF Truthy(a) THEN a ELSE b

\* The row test of async_setup_entry's loop.
IsEntryMediaPlayer(ent, entry_id) ==
    /\ ent.domain = "media_player"
    /\ ent.platform = DOMAIN_NAME
    /\ ent.config_entry_id = entry_id

\* The loop over ent_reg.entities.values(): the first matching row's entity
\* id (break), None when no row matches.
ResolveMediaPlayer(reg, entry_id) ==
    LET hits == { k \in 1..Len(reg) : IsEntryMediaPlayer(reg[k], entry_id) }
    IN  IF hits = {} THEN NoneVal
        ELSE reg[CHOOSE k \in hits : \A j \in hits : k <= j].entity_id

\* host = data.get("host") or data.get("ip_address") or ...
EntryHost(data) ==
    Or(data.host, Or(data.ip_address, Or(data.ip, data.device_ip)))

\* name = entry.title or "Samsung The Frame"
EntryName(title) == Or(title, "Samsung The Frame")

\* FrameArtSwitch.__init__.  It does not assign _attr_available: the entity
\* base class's default, True, stands until the first call to the TV.
FrameArtSwitch(name, host, media_player, options) ==
    [name |-> name,
     host |-> host,
     mp |-> media_player,
     is_on |-> FALSE,
     available |-> TRUE,
     enabled |-> OptGet(options, OPT_ENABLED, DEF_ENABLED),
     source_off |-> OptGet(options, OPT_SOURCE_OFF, NoneVal),
     app_id |-> OptGet(options, OPT_APP_ID, DEF_APP_ID),
     delay |-> Max(0, OptGet(options, OPT_SELECT_DELAY, DEF_SELECT_DELAY)),
     retries |-> Max(0, OptGet(options, OPT_RETRIES, DEF_RETRIES)),
     retry_sleep |->
        Max(MIN_RETRY_SLEEP, OptGet(options, OPT_RETRY_SLEEP, DEF_RETRY_SLEEP))]

\* The fields before any switch exists.
NoSwitch ==
    [name |-> NoneVal, host |-> NoneVal, mp |-> NoneVal, is_on |-> FALSE,
     available |-> TRUE, enabled |-> NoneVal, source_off |-> NoneVal,
     app_id |-> NoneVal, delay |-> 0, retries |-> 0, retry_sleep |-> 0]

\* The state the host hands to the platform: a registry snapshot, the state
\* store and the config entry; no switch yet.
InitWith(registries, entries) ==
    /\ registry \in registries
    /\ states \in StateSetsOf(registry)
    /\ entry \in entries
    /\ created = FALSE
    /\ self = NoSwitch
    /\ pc = "setup"
    /\ i = 0
    /\ log = <<>>
    /\ last = "none"
    /\ artOk = FALSE
    /\ before = FALSE
    /\ raised = FALSE
    /\ hass_data = NoData
    /\ hook = NoHook

Init == InitWith(SmallRegistries, Entries(AllOptions, DataDicts))

InitResolver == InitWith(AllRegistries, Entries(ResolverOptions, ResolverDataDicts))

\* async_setup_entry of the switch platform.
AsyncSetupEntry ==
    /\ pc = "setup"
    /\ LET opts == entry.options
           host == EntryHost(entry.data)
       IN  IF OptGet(opts, OPT_ENABLED, DEF_ENABLED) = "False" \/ ~Truthy(host)
           THEN /\ pc' = "no_switch"
                /\ UNCHANGED <<created, self>>
           ELSE /\ pc' = "idle"
                /\ created' = TRUE
                /\ self' = FrameArtSwitch(EntryName(entry.title), host,
                                ResolveMediaPlayer(registry, entry.entry_id),
                                opts)
    /\ UNCHANGED <<hass_data, hook, registry, states, entry, i, log, last, artOk, before, raised>>


\* ------------------------------------------------------ switch.py: the helpers

\* What one entity's attribute may read as in the host's state store.
AttrValues == { NoneVal, "HDMI1", "TV/HDMI", "TV" }

\* Entries of log.
SleepEvent(what, dur) ==
    [ev |-> "sleep", svc |-> what, arg |-> "", val |-> "", target |-> "",
     ok |-> TRUE, present |-> TRUE, dur |-> dur]

CallEvent(svc, arg, val, target, outcome) ==
    [ev |-> "call", svc |-> svc, arg |-> arg, val |-> val, target |-> target,
     ok |-> (outcome = "ok"), present |-> (target \in states), dur |-> 0]

PollEvent(key, expected, target, matched) ==
    [ev |-> "poll", svc |-> key, arg |-> "", val |-> expected,
     target |-> target, ok |-> matched, present |-> (target \in states),
     dur |-> 0]

\* _get_attr: reported is what the entity's state holds under the key (None
\* when the attribute is missing).
GetAttr(mp, reported) ==
    IF Truthy(mp) /\ mp \in states THEN reported ELSE NoneVal

\* The loop written as range(self._retries + 2).
WaitAttrIterations_Extra(retries) == retries + 2

\* The loop written as range(self._retries).
WaitAttrIterations_Short(retries) == retries

\* range(self._retries + 1) of _wait_attr.
WaitAttrIterations(retries) == retries + 1

\* _call_select_source without its except clause.
CallSelectSourceResult_Raises(outcome) ==
    IF outcome = "ok" THEN "True" ELSE "raise"

\* _call_select_source returning True from its except clause too.
CallSelectSourceResult_AlwaysTrue(outcome) == "True"

\* try/except of _call_select_source around the service call: what the
\* coroutine does with the call's outcome ("raise": the error leaves it).
CallSelectSourceResult(outcome) ==
    IF outcome = "ok" THEN "True" ELSE "False"

\* _call_select_app without its "return True" lines.
CallSelectAppResult_FallsThrough(outcome) == "next"

\* The two nested try/except of _call_select_app: "True" returns, "next"
\* goes on to the following strategy.
CallSelectAppResult(outcome) ==
    IF outcome = "ok" THEN "True" ELSE "next"

\* _call_select_app, from "if not self._mp" to the first awaited call.
AppCallEntry(s) ==
    IF ~Truthy(s.mp) THEN "idle" ELSE "app_call_app"

\* _sequence_after_art_off, step 2 up to its first suspension point.
AppStepEntry(s) ==
    IF Truthy(s.app_id)
    THEN IF s.delay > 0 THEN "app_delay" ELSE AppCallEntry(s)
    ELSE "idle"

\* _call_select_source, from "if not self._mp" to the awaited call, when
\* called from step 1.
SourceCallEntry(s) ==
    IF ~Truthy(s.mp) THEN AppStepEntry(s) ELSE "src_call"

\* _sequence_after_art_off, step 1 up to its first suspension point.
SourceStepEntry(s) ==
    IF Truthy(s.source_off)
    THEN IF s.delay > 0 THEN "src_delay" ELSE SourceCallEntry(s)
    ELSE AppStepEntry(s)

\* The sequence without its "if not self._enabled: return".
SequenceEntry_NoFlag(s) == SourceStepEntry(s)

\* _sequence_after_art_off up to its first suspension point.
SequenceEntry(s) ==
    IF ~Truthy(s.enabled) THEN "idle" ELSE SourceStepEntry(s)

\* Where _wait_attr's caller continues when the wait is over.
AfterWait(position, s) ==
    IF position = "src_wait" THEN AppStepEntry(s) ELSE "idle"


\* --------------------------------------------------- switch.py: the Switch API

\* async_turn_on writing is_on before it knows the call's outcome.
TurnOnResult_EarlyWrite(s, outcome) ==
    IF outcome = "ok"
    THEN [s EXCEPT !.is_on = TRUE, !.available = TRUE]
    ELSE [s EXCEPT !.is_on = TRUE, !.available = FALSE]

\* async_turn_on after the executor job: the try body or the except body.
TurnOnResult(s, outcome) ==
    IF outcome = "ok"
    THEN [s EXCEPT !.is_on = TRUE, !.available = TRUE]
    ELSE [s EXCEPT !.available = FALSE]

\* async_turn_off without "self._attr_is_on = False".
TurnOffResult_KeepsIsOn(s, outcome) ==
    IF outcome = "ok"
    THEN [s EXCEPT !.available = TRUE]
    ELSE [s EXCEPT !.available = FALSE]

\* async_turn_off after the executor job.
TurnOffResult(s, outcome) ==
    IF outcome = "ok"
    THEN [s EXCEPT !.is_on = FALSE, !.available = TRUE]
    ELSE [s EXCEPT !.available = FALSE]

\* The sequence started whatever the art-mode call did.
TurnOffContinues_Always(s, outcome) == SequenceEntry(s)

\* "if ok: await self._sequence_after_art_off()"
TurnOffContinues(s, outcome) ==
    IF outcome = "ok" THEN SequenceEntry(s) ELSE "idle"

\* async_update without "self._attr_available = False".
UpdateResult_StaysAvailable(s, outcome, status) ==
    IF outcome = "ok"
    THEN [s EXCEPT !.is_on = (status = "on"), !.available = TRUE]
    ELSE s

\* async_update after the executor job; status is get_artmode()'s answer.
UpdateResult(s, outcome, status) ==
    IF outcome = "ok"
    THEN [s EXCEPT !.is_on = (status = "on"), !.available = TRUE]
    ELSE [s EXCEPT !.available = FALSE]

\* The host starts an operation on the switch: it runs one at a time.
Start(op, position) ==
    /\ created
    /\ pc = "idle"
    /\ pc' = position
    /\ last' = op
    /\ before' = self.is_on
    /\ artOk' = FALSE
    /\ log' = <<>>
    /\ i' = 0
    /\ UNCHANGED <<hass_data, hook, registry, states, entry, created, self, raised>>

TurnOnRequest == Start("turn_on", "on_art")

TurnOffRequest == Start("turn_off", "off_art")

UpdateRequest == Start("update", "update_art")

\* set_artmode("on") returned or raised.
TurnOnArtReturns ==
    /\ pc = "on_art"
    /\ \E outcome \in CallOutcomes :
        /\ self' = TurnOnResult(self, outcome)
        /\ artOk' = (outcome = "ok")
    /\ pc' = "idle"
    /\ UNCHANGED <<hass_data, hook, registry, states, entry, created, i, log, last, before,
                   raised>>

\* set_artmode("off") returned or raised.
TurnOffArtReturns ==
    /\ pc = "off_art"
    /\ \E outcome \in CallOutcomes :
        /\ self' = TurnOffResult(self, outcome)
        /\ artOk' = (outcome = "ok")
        /\ pc' = TurnOffContinues(self', outcome)
    /\ UNCHANGED <<hass_data, hook, registry, states, entry, created, i, log, last, before,
                   raised>>

\* get_artmode() returned or raised.
UpdateArtReturns ==
    /\ pc = "update_art"
    /\ \E outcome \in CallOutcomes, status \in {"on", "off"} :
        /\ self' = UpdateResult(self, outcome, status)
        /\ artOk' = (outcome = "ok")
    /\ pc' = "idle"
    /\ UNCHANGED <<hass_data, hook, registry, states, entry, created, i, log, last, before,
                   raised>>

\* ------------------------------------------ switch.py: the post-toggle sequence

\* asyncio.sleep(self._delay) of step 1 is over.
SourceDelayDone ==
    /\ pc = "src_delay"
    /\ log' = Append(log, SleepEvent("delay", self.delay))
    /\ pc' = SourceCallEntry(self)
    /\ UNCHANGED <<hass_data, hook, registry, states, entry, created, self, i, last, artOk,
                   before, raised>>

\* asyncio.sleep(self._delay) of step 2 is over.
AppDelayDone ==
    /\ pc = "app_delay"
    /\ log' = Append(log, SleepEvent("delay", self.delay))
    /\ pc' = AppCallEntry(self)
    /\ UNCHANGED <<hass_data, hook, registry, states, entry, created, self, i, last, artOk,
                   before, raised>>

\* A service call of the sequence is over: result is what the coroutine
\* around it makes of the outcome.
ServiceCallReturns(position, event, result, onTrue, onFalse) ==
    /\ pc = position
    /\ log' = Append(log, event)
    /\ i' = 0
    /\ pc' = CASE result = "True" -> onTrue
               [] result = "raise" -> "idle"
               [] OTHER -> onFalse
    /\ raised' = (raised \/ result = "raise")
    /\ UNCHANGED <<hass_data, hook, registry, states, entry, created, self, last, artOk, before>>

\* media_player.select_source(source=self._source_off) of step 1.
SelectSourceReturns ==
    \E outcome \in CallOutcomes :
        ServiceCallReturns("src_call",
            CallEvent("media_player.select_source", "source", self.source_off,
                      self.mp, outcome),
            CallSelectSourceResult(outcome), "src_wait", AppStepEntry(self))

\* samsungtv_smart.select_app(app=...), the preferred strategy.
SelectAppReturns ==
    \E outcome \in CallOutcomes :
        ServiceCallReturns("app_call_app",
            CallEvent("samsungtv_smart.select_app", "app", self.app_id,
                      self.mp, outcome),
            CallSelectAppResult(outcome), "app_wait", "app_call_app_id")

\* samsungtv_smart.select_app(app_id=...), the fallback parameter name.
SelectAppFallbackReturns ==
    \E outcome \in CallOutcomes :
        ServiceCallReturns("app_call_app_id",
            CallEvent("samsungtv_smart.select_app", "app_id", self.app_id,
                      self.mp, outcome),
            CallSelectAppResult(outcome), "app_wait", "app_call_source")

\* media_player.select_source(source=app_id), the last resort.
SelectAppLastResortReturns ==
    \E outcome \in CallOutcomes :
        ServiceCallReturns("app_call_source",
            CallEvent("media_player.select_source", "source", self.app_id,
                      self.mp, outcome),
            CallSelectSourceResult(outcome), "app_wait", "idle")

\* One iteration of _wait_attr's loop: the poll and, on a mismatch, the sleep
\* that follows it.
WaitAttrIteration(position, key, expected) ==
    /\ pc = position
    /\ \E reported \in AttrValues :
        LET matched == GetAttr(self.mp, reported) = expected
            poll == PollEvent(key, expected, self.mp, matched)
            over == matched \/ i + 1 >= WaitAttrIterations(self.retries)
        IN  /\ log' = IF matched
                      THEN Append(log, poll)
                      ELSE log \o <<poll, SleepEvent("retry", self.retry_sleep)>>
            /\ i' = IF over THEN 0 ELSE i + 1
            /\ pc' = IF over THEN AfterWait(position, self) ELSE position
    /\ UNCHANGED <<hass_data, hook, registry, states, entry, created, self, last, artOk, before,
                   raised>>

WaitSource == WaitAttrIteration("src_wait", "source", self.source_off)

WaitApp == WaitAttrIteration("app_wait", "app_id", self.app_id)

\* ----------------------------------------------------------- the environment

\* An entity disappears from the host's state store.
HostEntityRemoved ==
    /\ pc # "setup"
    /\ \E e \in states : states' = states \ {e}
    /\ UNCHANGED <<hass_data, hook, registry, entry, created, self, pc, i, log, last, artOk,
                   before, raised>>

Next ==
    \/ AsyncSetupEntry
    \/ TurnOnRequest
    \/ TurnOffRequest
    \/ UpdateRequest
    \/ TurnOnArtReturns
    \/ TurnOffArtReturns
    \/ UpdateArtReturns
    \/ SourceDelayDone
    \/ SelectSourceReturns
    \/ WaitSource
    \/ AppDelayDone
    \/ SelectAppReturns
    \/ SelectAppFallbackReturns
    \/ SelectAppLastResortReturns
    \/ WaitApp
    \/ HostEntityRemoved

Spec == Init /\ [][Next]_vars

SpecResolver == InitResolver /\ [][Next]_vars


\* The awaited TV calls, service calls and sleeps of the switch's coroutines
\* return: the event loop resumes the task.
AwaitReturns ==
    \/ TurnOnArtReturns
    \/ TurnOffArtReturns
    \/ UpdateArtReturns
    \/ SourceDelayDone
    \/ SelectSourceReturns
    \/ WaitSource
    \/ AppDelayDone
    \/ SelectAppReturns
    \/ SelectAppFallbackReturns
    \/ SelectAppLastResortReturns
    \/ WaitApp

\* Spec, provided every awaited call and sleep returns.
SpecReturns == Spec /\ WF_vars(AwaitReturns)

\* ------------------------------------------- cancellation and interleaving

\* Where a turn_off task is suspended inside the post-toggle sequence: its
\* delays, its service calls and the sleeps of its waits.
SuspensionPoints ==
    {"src_delay", "src_call", "src_wait", "app_delay", "app_call_app",
     "app_call_app_id", "app_call_source", "app_wait"}

\* Where a service call of the sequence is in flight.
CallPositions ==
    {"src_call", "app_call_app", "app_call_app_id", "app_call_source"}

\* The except clauses read "except Exception", as if CancelledError were one.
OnCancelled_CaughtAsException(position, s) ==
    CASE position = "src_call" -> AppStepEntry(s)
      [] position = "app_call_app" -> "app_call_app_id"
      [] position = "app_call_app_id" -> "app_call_source"
      [] OTHER -> "idle"

\* asyncio.CancelledError thrown into the task at the await of position: it
\* is a BaseException, so no "except Exception" of the sequence catches it
\* and the task ends there.
OnCancelled(position, s) == "idle"

\* The host cancels the turn_off task while it is suspended in the sequence.
Cancel ==
    /\ pc \in SuspensionPoints
    /\ pc' = OnCancelled(pc, self)
    /\ last' = "cancelled"
    /\ i' = 0
    /\ UNCHANGED <<hass_data, hook, registry, states, entry, created, self, log, artOk, before,
                   raised>>

\* A turn_on of the same switch runs to its end while the turn_off task is
\* suspended in the sequence (the host does not serialise the two service
\* calls): set_artmode("on") returns or raises.
InterleavedTurnOn ==
    /\ pc \in SuspensionPoints
    /\ \E outcome \in CallOutcomes : self' = TurnOnResult(self, outcome)
    /\ UNCHANGED <<hass_data, hook, registry, states, entry, created, pc, i, log, last, artOk,
                   before, raised>>

NextCancel == Next \/ Cancel

SpecCancel == Init /\ [][NextCancel]_vars

NextInterleaved == Next \/ InterleavedTurnOn

SpecInterleaved == Init /\ [][NextInterleaved]_vars

\* The integration's hooks on their own: the host sets up and unloads config
\* entries in any order.
InitIntegration ==
    InitWith({<<>>},
             Entries({OptionsDict(<<>>, <<>>, <<>>, <<>>, <<>>, <<>>)},
                     {DataDict(TvAddress, NoneVal, NoneVal, NoneVal)}))

NextIntegration ==
    \/ IntegrationSetupEntry
    \/ IntegrationUnloadEntry
    \/ PlatformStoresData

SpecIntegration == InitIntegration /\ [][NextIntegration]_vars

\* ===================================================================== claims

\* The service calls, and the service calls and polls, of the current
\* operation, in the order they happened.
IsCall(e) == e.ev = "call"
IsPoll(e) == e.ev = "poll"
IsCallOrPoll(e) == e.ev \in {"call", "poll"}
Calls == SelectSeq(log, IsCall)
Polls == SelectSeq(log, IsPoll)
Kind(e) == <<e.ev, e.svc, e.arg>>
Kinds(evs) == [k \in 1..Len(evs) |-> Kind(evs[k])]
Repeat(x, n) == [k \in 1..n |-> x]

\* The operation that last started has returned to the host.
Returned(op) == pc = "idle" /\ last = op

\* A turn_off whose art-mode call succeeded has returned, on a switch with the
\* feature on, a source label, an app id and a media entity.
FullTurnOffReturned ==
    /\ Returned("turn_off")
    /\ artOk
    /\ Truthy(self.enabled)
    /\ Truthy(self.source_off)
    /\ Truthy(self.app_id)
    /\ Truthy(self.mp)

\* The scenario of C1: every service call succeeded and no poll ever saw the
\* requested value.
NothingChangesScenario ==
    /\ FullTurnOffReturned
    /\ \A k \in 1..Len(log) :
        /\ IsCall(log[k]) => log[k].ok
        /\ IsPoll(log[k]) => ~log[k].ok

\* One select_source call, n polls of 'source', one select_app call, n polls
\* of 'app_id'.
ScenarioTrace(n) ==
    <<<<"call", "media_player.select_source", "source">>>>
    \o Repeat(<<"poll", "source", "">>, n)
    \o <<<<"call", "samsungtv_smart.select_app", "app">>>>
    \o Repeat(<<"poll", "app_id", "">>, n)

\* C1 as stated: in the scenario with retry count N the turn_off issues one
\* select_source call, polls 'source' exactly N times, issues one select_app
\* call, polls 'app_id' exactly N times, and returns without error.
C1_AsStated ==
    NothingChangesScenario =>
        /\ Kinds(SelectSeq(log, IsCallOrPoll)) = ScenarioTrace(self.retries)
        /\ ~raised

\* C1 amended: in the scenario with retry count N the turn_off issues one
\* select_source call, polls 'source' exactly N + 1 times, issues one
\* select_app call, polls 'app_id' exactly N + 1 times, and returns without
\* error.
C1_Amended ==
    NothingChangesScenario =>
        /\ Kinds(SelectSeq(log, IsCallOrPoll)) = ScenarioTrace(self.retries + 1)
        /\ ~raised

\* The scenario of the specification: retries 3, attributes never change.
C1_Witness ==
    /\ NothingChangesScenario
    /\ self.retries = 3
    /\ self.mp \in states

\* C2: on a switch whose feature-enable option is false (or whose entry has it
\* false, so that no switch exists), no host service call is ever issued or in
\* flight, whatever the other options and the outcome of the art-mode call.
C2_NoCallWhenDisabled ==
    ~Truthy(OptGet(entry.options, OPT_ENABLED, DEF_ENABLED)) =>
        /\ Len(Calls) = 0
        /\ pc \in {"setup", "no_switch", "idle", "on_art", "off_art",
                   "update_art"}

\* A turn_off whose art-mode call succeeded has returned on a switch with the
\* feature disabled and everything else configured.
C2_Witness ==
    /\ Returned("turn_off")
    /\ artOk
    /\ ~Truthy(self.enabled)
    /\ Truthy(self.source_off)
    /\ Truthy(self.app_id)
    /\ self.mp \in states


\* C3 as stated: when a turn_on or turn_off request returns, is_on equals the
\* state the request asked for.
C3_AsStated ==
    /\ Returned("turn_on") => self.is_on
    /\ Returned("turn_off") => ~self.is_on

\* C3 amended: when a turn_on or turn_off request returns, is_on equals the
\* state the request asked for if its art-mode call to the TV succeeded,
\* whatever the post-toggle sequencer did, and the value it had before the
\* request if that call failed.
C3_Amended ==
    /\ Returned("turn_on") => self.is_on = (IF artOk THEN TRUE ELSE before)
    /\ Returned("turn_off") => self.is_on = (IF artOk THEN FALSE ELSE before)

\* A turn_off of a switch that was on has returned after a sequence in which
\* a service call failed and a wait timed out.
C3_Witness ==
    /\ Returned("turn_off")
    /\ artOk
    /\ before
    /\ \E k \in 1..Len(log) : IsCall(log[k]) /\ ~log[k].ok
    /\ \E k \in 1..Len(log) : IsPoll(log[k]) /\ ~log[k].ok

\* C4 as stated: is_on changes only in a turn_on or a turn_off.
C4_AsStated ==
    [][self'.is_on # self.is_on => pc \in {"on_art", "off_art"}]_vars

\* C4 amended: is_on changes only when the TV call of a turn_on, a turn_off or
\* an async_update returns successfully (turn_on sets it, turn_off clears it,
\* async_update copies the TV's art-mode status); the post-toggle sequencer
\* and its helpers never change it.
C4_Amended ==
    [][self'.is_on # self.is_on =>
        /\ pc \in {"on_art", "off_art", "update_art"}
        /\ artOk'
        /\ pc = "on_art" => self'.is_on
        /\ pc = "off_art" => ~self'.is_on]_vars

\* An async_update has changed is_on.
C4_Witness ==
    /\ Returned("update")
    /\ artOk
    /\ self.is_on # before

\* The events of step 1: its select_source call and its polls.  The source
\* labels and the app ids of the entries are disjoint.
SourceStepCall(e) ==
    /\ IsCall(e)
    /\ e.svc = "media_player.select_source"
    /\ e.val = self.source_off

SourceStepPoll(e) == IsPoll(e) /\ e.svc = "source"

SourceStepEvent(e) == SourceStepCall(e) \/ SourceStepPoll(e)

\* C5: no operation of the switch ever raises, and a failure of the source
\* step does not abort the sequence: a returned turn_off with both steps
\* configured has made its one select_source call and, after every event of
\* the source step, the first select_app call.
C5_SequenceNeverAborts ==
    /\ ~raised
    /\ FullTurnOffReturned =>
        /\ Len(SelectSeq(log, SourceStepCall)) = 1
        /\ \E k \in 1..Len(log) :
            /\ Kind(log[k]) = <<"call", "samsungtv_smart.select_app", "app">>
            /\ \A j \in 1..Len(log) : SourceStepEvent(log[j]) => j < k

\* The select_source call failed and the app step ran all the same.
C5_Witness ==
    /\ FullTurnOffReturned
    /\ \E k \in 1..Len(log) : SourceStepCall(log[k]) /\ ~log[k].ok
    /\ \E k \in 1..Len(log) : IsCall(log[k]) /\ log[k].arg = "app"

\* A turn_off has returned whose select_source call of step 1 failed.
SelectSourceFailed ==
    /\ Returned("turn_off")
    /\ artOk
    /\ \E k \in 1..Len(log) : SourceStepCall(log[k]) /\ ~log[k].ok
    /\ \A k \in 1..Len(log) : SourceStepCall(log[k]) => ~log[k].ok

\* C6 as stated: when select_source fails, the sequencer completes without
\* raising after exactly the configured retry count of attempts.
C6_AsStated ==
    SelectSourceFailed =>
        /\ ~raised
        /\ Len(SelectSeq(log, SourceStepCall)) = self.retries

\* C6 amended: when select_source fails, the sequencer completes without
\* raising after exactly one attempt, whatever the retry count, and never
\* polls 'source'.
C6_Amended ==
    SelectSourceFailed =>
        /\ ~raised
        /\ Len(SelectSeq(log, SourceStepCall)) = 1
        /\ Len(SelectSeq(log, SourceStepPoll)) = 0

\* select_source failed on a switch with retry count 3.
C6_Witness ==
    /\ SelectSourceFailed
    /\ self.retries = 3


\* ------------------------------------------------------------- the resolver

\* The characters of the titles and entity ids in use.
CharsOf(str) ==
    CASE str = "TV 1" -> <<"T", "V", " ", "1">>
      [] str = "media_player.tv_1" ->
            <<"m", "e", "d", "i", "a", "_", "p", "l", "a", "y", "e", "r", ".",
              "t", "v", "_", "1">>
      [] str = "media_player.salon" ->
            <<"m", "e", "d", "i", "a", "_", "p", "l", "a", "y", "e", "r", ".",
              "s", "a", "l", "o", "n">>
      [] str = "remote.tv_1" ->
            <<"r", "e", "m", "o", "t", "e", ".", "t", "v", "_", "1">>
      [] OTHER -> <<>>

\* The normalised slug of a title: lower case, every other character "_".
SlugChar(c) ==
    CASE c = "T" -> "t"
      [] c = "V" -> "v"
      [] c \in {"1", "t", "v"} -> c
      [] OTHER -> "_"

Slugify(chars) == [k \in 1..Len(chars) |-> SlugChar(chars[k])]

Contains(hay, needle) ==
    \E k \in 1..(Len(hay) - Len(needle) + 1) :
        SubSeq(hay, k, k + Len(needle) - 1) = needle

HasTitleSlug(entity_id) ==
    Contains(CharsOf(entity_id), Slugify(CharsOf(entry.title)))

\* The valid candidates of the entry being set up: media players it owns that
\* are not disabled and are present in host state.
ValidCandidates ==
    { registry[k].entity_id :
        k \in { j \in 1..Len(registry) :
                  /\ registry[j].domain = "media_player"
                  /\ registry[j].config_entry_id = entry.entry_id
                  /\ ~registry[j].disabled
                  /\ registry[j].entity_id \in states } }

\* C7: when exactly one registry row is valid for the instance, the switch
\* set up for it holds that row's entity id, whatever else the registry
\* holds.
C7_UniqueValidResolved ==
    [][(pc = "setup" /\ created' /\ Cardinality(ValidCandidates) = 1) =>
        self'.mp \in ValidCandidates]_vars

\* C8: when no registry row is valid for the instance, the switch set up for
\* it holds no media entity and reports available = false.
C8_NoCandidateUnavailable ==
    [][(pc = "setup" /\ created' /\ ValidCandidates = {}) =>
        (self'.mp = NoneVal /\ ~self'.available)]_vars

\* C9: when several rows are valid for the instance and exactly one of their
\* entity ids contains the slug of the instance's title, the switch set up
\* for it holds that one.
C9_TitleSlugPreferred ==
    [][(/\ pc = "setup"
        /\ created'
        /\ Cardinality(ValidCandidates) > 1
        /\ Cardinality({ e \in ValidCandidates : HasTitleSlug(e) }) = 1) =>
        self'.mp \in { e \in ValidCandidates : HasTitleSlug(e) }]_vars

\* C10: the switch's media entity reference is None or an entity id present
\* in host state, and no service call is addressed to an entity id absent
\* from host state.
C10_ReferencePresent ==
    created =>
        /\ self.mp = NoneVal \/ self.mp \in states
        /\ \A k \in 1..Len(log) : IsCall(log[k]) => log[k].present


\* ------------------------------------------------------------- the app step

\* The service calls of step 2: the two select_app forms and the last-resort
\* select_source with the app id as label.
AppStepCall(e) ==
    /\ IsCall(e)
    /\ \/ e.svc = "samsungtv_smart.select_app"
       \/ e.svc = "media_player.select_source" /\ e.val = self.app_id

AppStepPoll(e) == IsPoll(e) /\ e.svc = "app_id"

AppCalls == SelectSeq(log, AppStepCall)

\* The strategies in the order of the code.
Strategies ==
    << <<"call", "samsungtv_smart.select_app", "app">>,
       <<"call", "samsungtv_smart.select_app", "app_id">>,
       <<"call", "media_player.select_source", "source">> >>

\* A turn_off whose art-mode call succeeded has returned on a switch with the
\* feature on, an app id and a media entity: its app step has run.
AppStepReturned ==
    /\ Returned("turn_off")
    /\ artOk
    /\ Truthy(self.enabled)
    /\ Truthy(self.app_id)
    /\ Truthy(self.mp)

\* C11: the app step (of a switch with a media entity) issues its strategies
\* in the fixed order app, app_id, select_source, a later one only after
\* every earlier one failed; once it has returned it has issued between one
\* and three calls, stopped at the first success or after the third failure,
\* and polled 'app_id' if and only if one strategy succeeded.
C11_StrategyOrder ==
    /\ Len(AppCalls) <= 3
    /\ \A k \in 1..Len(AppCalls) :
        /\ Kind(AppCalls[k]) = Strategies[k]
        /\ k < Len(AppCalls) => ~AppCalls[k].ok
    /\ AppStepReturned =>
        /\ Len(AppCalls) >= 1
        /\ ~AppCalls[Len(AppCalls)].ok => Len(AppCalls) = 3
        /\ Len(SelectSeq(log, AppStepPoll)) > 0 <=> AppCalls[Len(AppCalls)].ok

\* The first two strategies failed, the last resort succeeded, and 'app_id'
\* was polled.
C11_Witness ==
    /\ AppStepReturned
    /\ Len(AppCalls) = 3
    /\ AppCalls[3].ok
    /\ Len(SelectSeq(log, AppStepPoll)) > 0

\* C12: a poll happens only after a service call that succeeded, with no
\* other call in between (a failed call is followed by no poll), and a poll
\* that observes the requested value is the last of its wait: it is followed
\* by neither a retry sleep nor another poll of that attribute.
C12_PollingDiscipline ==
    /\ \A k \in 1..Len(log) :
        IsPoll(log[k]) =>
            \E j \in 1..(k - 1) :
                /\ IsCall(log[j])
                /\ log[j].ok
                /\ \A m \in (j + 1)..(k - 1) : ~IsCall(log[m])
    /\ \A k \in 1..Len(log) :
        (IsPoll(log[k]) /\ log[k].ok) =>
            /\ pc \in {"src_wait", "app_wait"} => k < Len(log)
            /\ k < Len(log) =>
                ~(log[k + 1].ev = "sleep" /\ log[k + 1].svc = "retry")
            /\ \A m \in (k + 1)..Len(log) :
                ~(IsPoll(log[m]) /\ log[m].svc = log[k].svc)

\* The 'source' wait ended at its second poll and the app step followed.
C12_Witness ==
    /\ Returned("turn_off")
    /\ \E k \in 3..Len(log) :
        /\ SourceStepPoll(log[k]) /\ log[k].ok
        /\ SourceStepPoll(log[k - 2]) /\ ~log[k - 2].ok
        /\ k < Len(log)
    /\ \E k \in 1..Len(log) : AppStepCall(log[k]) /\ ~log[k].ok

\* C13: on a switch with no resolved media entity a successful turn_off does
\* not run the post-toggle sequence: no delay, no service call, no poll.
C13_NoSequenceWithoutEntity ==
    (created /\ ~Truthy(self.mp)) =>
        /\ log = <<>>
        /\ pc \in {"idle", "on_art", "off_art", "update_art"}

\* C14: when the art-mode call of a turn_on or turn_off fails, the request
\* returns at once without raising, is_on keeps the value it had before the
\* request, available is false, and no part of the post-toggle sequence runs.
C14_ArtFailure ==
    (last \in {"turn_on", "turn_off"} /\ pc \notin {"on_art", "off_art"}
        /\ ~artOk) =>
        /\ pc = "idle"
        /\ ~raised
        /\ self.is_on = before
        /\ ~self.available
        /\ log = <<>>

\* The art-mode call of a turn_off failed on a switch that was on and has
\* everything configured.
C14_Witness ==
    /\ Returned("turn_off")
    /\ ~artOk
    /\ before
    /\ Truthy(self.enabled)
    /\ Truthy(self.source_off)
    /\ Truthy(self.app_id)
    /\ self.mp \in states

\* C16: once the TV call of a turn_on, turn_off or async_update is over,
\* available tells whether it succeeded, and stays so through the whole
\* post-toggle sequence, which leaves available true and is_on false
\* whatever its service calls and waits do.
C16_AvailableIsTvCall ==
    (last # "none" /\ pc \notin {"on_art", "off_art", "update_art"}) =>
        /\ self.available = artOk
        /\ (last = "turn_off" /\ artOk) => ~self.is_on

\* Every strategy of the app step failed after a timed-out 'source' wait, and
\* the switch is available.
C16_Witness ==
    /\ AppStepReturned
    /\ self.available
    /\ Len(AppCalls) = 3
    /\ ~AppCalls[3].ok
    /\ \E k \in 1..Len(log) : SourceStepPoll(log[k]) /\ ~log[k].ok


\* The work of the current operation stays within the options' bounds: at
\* most one call in the source step, three in the app step, four in all, and
\* at most retries + 1 polls of each attribute.
WithinBounds ==
    /\ Len(SelectSeq(log, SourceStepCall)) <= 1
    /\ Len(AppCalls) <= 3
    /\ Len(Calls) <= 4
    /\ Len(SelectSeq(log, SourceStepPoll)) <= self.retries + 1
    /\ Len(SelectSeq(log, AppStepPoll)) <= self.retries + 1
    /\ Len(Polls) <= 2 * (self.retries + 1)
    /\ self.retries >= 0

\* C17: provided every service call and sleep returns, every turn_off
\* returns, having issued at most 4 service calls (1 for the source step, at
\* most 3 for the app step) and at most R + 1 polls per step, 2 * (R + 1)
\* overall, for the switch's retry count R >= 0.
C17_BoundedTurnOff ==
    /\ []WithinBounds
    /\ (pc = "off_art") ~> (pc = "idle")

\* A turn_off that used all it may: four service calls and R + 1 polls of
\* each attribute, with R = 3.
C17_Witness ==
    /\ Returned("turn_off")
    /\ self.retries = 3
    /\ Len(Calls) = 4
    /\ Len(SelectSeq(log, SourceStepPoll)) = 4
    /\ Len(SelectSeq(log, AppStepPoll)) = 4


\* C15: when the host cancels a turn_off task suspended in the post-toggle
\* sequence, the task ends there: from then on no service call, poll or sleep
\* of that sequence happens, nothing done is undone (the log and the switch's
\* fields are as they were) and is_on stays false.
C15_CancelAbandons ==
    [][last' = "cancelled" =>
        /\ pc' = "idle"
        /\ log' = log
        /\ self' = self
        /\ ~self'.is_on]_vars

\* Cancelled after select_source succeeded and before any app selection: the
\* source stays selected without the app.
C15_Witness ==
    /\ last = "cancelled"
    /\ Truthy(self.app_id)
    /\ \E k \in 1..Len(log) : SourceStepCall(log[k]) /\ log[k].ok
    /\ Len(AppCalls) = 0

\* C18: a service call of the post-toggle sequence is issued only while is_on
\* is false, also when a turn_on is interleaved with the turn_off in flight.
C18_NoCallWhileOn ==
    [][(pc' \in CallPositions /\ pc' # pc) => ~self'.is_on]_vars


\* C19: a hook touches only its own entry's key.  After setup the key is
\* present; after an unload whose platform unload succeeded it is absent;
\* after an unload whose platform unload failed the key is as it was and the
\* hook returned False; the keys of all other entries are as they were.
C19_OwnKeyOnly ==
    [][hook' # hook =>
        LET e == hook'.entry_id
        IN  /\ hook'.op = "setup" => e \in DOMAIN hass_data'
            /\ (hook'.op = "unload" /\ hook'.platforms = "True") =>
                /\ e \notin DOMAIN hass_data'
                /\ hook'.result = "True"
            /\ (hook'.op = "unload" /\ hook'.platforms = "False") =>
                /\ hook'.result = "False"
                /\ e \in DOMAIN hass_data =>
                    /\ e \in DOMAIN hass_data'
                    /\ hass_data'[e] = hass_data[e]
            /\ \A k \in IntegrationEntryIds \ {e} :
                /\ k \in DOMAIN hass_data' <=> k \in DOMAIN hass_data
                /\ k \in DOMAIN hass_data => hass_data'[k] = hass_data[k]]_vars

\* An unload whose platform unload failed left its entry's key in place,
\* beside another entry with stored data and a third that is not set up.
C19_Witness ==
    /\ hook.op = "unload"
    /\ hook.platforms = "False"
    /\ hook.entry_id \in DOMAIN hass_data
    /\ \E k \in DOMAIN hass_data : k # hook.entry_id /\ hass_data[k] = "populated"
    /\ DOMAIN hass_data # IntegrationEntryIds


====
